---------------------------- MODULE Spec2Model ----------------------------
(***************************************************************************)
(* A model of the WhatsGate client (package whatsgate): NewClient, the     *)
(* header-injecting transport, and the three operations SendMessage,       *)
(* SendPDF and Check, each split at the points where it blocks on the      *)
(* network so that concurrent calls interleave.                            *)
(*                                                                         *)
(* Go strings are sequences of one-character strings.  A JSON text is a    *)
(* tree of tagged records whose string leaves hold the ESCAPED form, so    *)
(* marshalling and unmarshalling are conversions, not the identity.        *)
(***************************************************************************)
EXTENDS Integers, Sequences, FiniteSets, TLC

VARIABLES
    client,   \* the Client built by NewClient: url, WhatsappID, transport key
    ctor,     \* the arguments NewClient was called with
    pc,       \* per call slot: idle, do, wire, received, done
    call,     \* per call slot: the operation and its arguments
    req,      \* per call slot: the *http.Request (r in the code)
    nreq,     \* per call slot: round trips made by the current call
    resp,     \* per call slot: the *http.Response (req in the code)
    ret,      \* per call slot: the values returned to the caller
    earlier   \* TRUE once some call on this client has returned

vars == <<client, ctor, pc, call, req, nreq, resp, ret, earlier>>

----------------------------------------------------------------------------
(* Bounds of the model *)

NumProcs == 2
MaxPdfLen == 3

Procs == 1..NumProcs

----------------------------------------------------------------------------
(* Program constants *)

StatusOK == 200

BaseURL == "https://whatsgate.ru/api/v1"

----------------------------------------------------------------------------
(* encoding/json: string literals *)

\* An invalid UTF-8 byte inside a Go string.
BadByte == "\\xff"

\* json.Marshal's escaping of one character (HTML escaping is on by default;
\* an invalid byte is replaced by the escape of U+FFFD).
EncodeChar(c) ==
    CASE c = "\"" -> "\\\""
      [] c = "\\" -> "\\\\"
      [] c = "<" -> "\\u003c"
      [] c = BadByte -> "\\ufffd"
      [] OTHER -> c

EncodeString(s) == [i \in 1..Len(s) |-> EncodeChar(s[i])]

\* json.Unmarshal's reading of one token of a string literal.
DecodeChar(k) ==
    CASE k = "\\\"" -> "\""
      [] k = "\\\\" -> "\\"
      [] k = "\\u003c" -> "<"
      [] k = "\\ufffd" -> "U+FFFD"
      [] OTHER -> k

DecodeString(e) == [i \in 1..Len(e) |-> DecodeChar(e[i])]

(* JSON values *)
JStr(s) == [t |-> "str", s |-> EncodeString(s)]
JBool(b) == [t |-> "bool", b |-> b]
JNum(n) == [t |-> "num", n |-> n]
JObj(m) == [t |-> "obj", m |-> m]
JNull == [t |-> "null"]
JFloat == [t |-> "float"]
JArr == [t |-> "arr"]
JMalformed == [t |-> "malformed"]

----------------------------------------------------------------------------
(* encoding/base64: StdEncoding *)

B64 ==
    << "A","B","C","D","E","F","G","H","I","J","K","L","M","N","O","P",
       "Q","R","S","T","U","V","W","X","Y","Z","a","b","c","d","e","f",
       "g","h","i","j","k","l","m","n","o","p","q","r","s","t","u","v",
       "w","x","y","z","0","1","2","3","4","5","6","7","8","9","+","/" >>

RECURSIVE EncodeToStringBug(_)
EncodeToStringBug(b) ==
    IF Len(b) < 3 THEN <<>>
    ELSE << B64[(b[1] \div 4) + 1],
            B64[((b[1] % 4) * 16 + (b[2] \div 16)) + 1],
            B64[((b[2] % 16) * 4 + (b[3] \div 64)) + 1],
            B64[(b[3] % 64) + 1] >> \o EncodeToStringBug(SubSeq(b, 4, Len(b)))

RECURSIVE EncodeToString(_)
EncodeToString(b) ==
    IF Len(b) = 0 THEN <<>>
    ELSE IF Len(b) = 1 THEN
        << B64[(b[1] \div 4) + 1], B64[((b[1] % 4) * 16) + 1], "=", "=" >>
    ELSE IF Len(b) = 2 THEN
        << B64[(b[1] \div 4) + 1],
           B64[((b[1] % 4) * 16 + (b[2] \div 16)) + 1],
           B64[((b[2] % 16) * 4) + 1], "=" >>
    ELSE << B64[(b[1] \div 4) + 1],
            B64[((b[1] % 4) * 16 + (b[2] \div 16)) + 1],
            B64[((b[2] % 16) * 4 + (b[3] \div 64)) + 1],
            B64[(b[3] % 64) + 1] >> \o EncodeToString(SubSeq(b, 4, Len(b)))


----------------------------------------------------------------------------
(* io.ReadAll over the caller's reader.  A reader holds the bytes it will   *)
(* deliver, how many it hands out per Read, and whether it ends with an     *)
(* error instead of io.EOF.                                                 *)

Min(a, b) == IF a < b THEN a ELSE b

RECURSIVE ReadFrom(_, _)
ReadFrom(r, pos) ==
    IF pos > Len(r.data) THEN <<>>
    ELSE SubSeq(r.data, pos, Min(pos + r.chunk - 1, Len(r.data)))
            \o ReadFrom(r, pos + r.chunk)

ReadAll(r) == [b |-> ReadFrom(r, 1), err |-> r.fails]

NoReader == [data |-> <<>>, chunk |-> 1, fails |-> FALSE]

----------------------------------------------------------------------------
(* The request types and json.Marshal of them: one member per struct field, *)
(* in field order, under the name its tag gives.                            *)

Member(k, v) == [k |-> k, v |-> v]

TypeText == <<"t", "e", "x", "t">>
TypeDoc == <<"d", "o", "c">>
MimePDF == <<"a","p","p","l","i","c","a","t","i","o","n","/","p","d","f">>

MarshalRecipient(number) == JObj(<<Member("number", JStr(number))>>)

MarshalMessage(type, body) ==
    JObj(<<Member("type", JStr(type)), Member("body", JStr(body))>>)

MarshalMedia(mimetype, data, filename) ==
    JObj(<<Member("mimetype", JStr(mimetype)),
           Member("data", JStr(data)),
           Member("filename", JStr(filename))>>)

MarshalMessagePDF(type, body, media) ==
    JObj(<<Member("type", JStr(type)), Member("body", JStr(body)),
           Member("media", media)>>)

\* The message built with the wrong kind.
MarshalMessageRequestDoc(whatsappID, phone, text) ==
    JObj(<<Member("WhatsappID", JStr(whatsappID)),
           Member("async", JBool(FALSE)),
           Member("recipient", MarshalRecipient(phone)),
           Member("message", MarshalMessage(TypeDoc, text))>>)

MarshalMessageRequest(whatsappID, phone, text) ==
    JObj(<<Member("WhatsappID", JStr(whatsappID)),
           Member("async", JBool(FALSE)),
           Member("recipient", MarshalRecipient(phone)),
           Member("message", MarshalMessage(TypeText, text))>>)

MarshalMessagePDFRequest(whatsappID, phone, text, filename, b) ==
    JObj(<<Member("WhatsappID", JStr(whatsappID)),
           Member("async", JBool(FALSE)),
           Member("recipient", MarshalRecipient(phone)),
           Member("message",
                  MarshalMessagePDF(TypeDoc, text,
                      MarshalMedia(MimePDF, EncodeToString(b), filename)))>>)

MarshalCheckRequest(whatsappID, phone) ==
    JObj(<<Member("WhatsappID", JStr(whatsappID)),
           Member("number", JStr(phone))>>)

----------------------------------------------------------------------------
(* The response types and json.Unmarshal into them.  A response text is one *)
(* JSON value (or no valid one) possibly followed by further data.          *)

ZeroResult ==
    [Id |-> <<>>, Id1 |-> <<>>, Ack |-> 0, HasMedia |-> FALSE,
     MediaKey |-> <<>>, Body |-> <<>>, Type |-> <<>>, Timestamp |-> 0,
     From |-> <<>>, FromName |-> <<>>, To |-> <<>>, IsForwarded |-> FALSE]

ZeroMessageResponse == [Result |-> ZeroResult]

ZeroCheckResponse == [Result |-> <<>>, Data |-> FALSE]

\* Field names match their tag exactly or under case folding.
Fold(k) ==
    CASE k = "Result" -> "result"
      [] k = "ACK" -> "ack"
      [] k = "Data" -> "data"
      [] OTHER -> k

\* The tags with _id and id exchanged.
ResultFieldSwapped(k) ==
    CASE Fold(k) = "_id" -> "Id1"
      [] Fold(k) = "id" -> "Id"
      [] Fold(k) = "ack" -> "Ack"
      [] Fold(k) = "hasMedia" -> "HasMedia"
      [] Fold(k) = "mediaKey" -> "MediaKey"
      [] Fold(k) = "body" -> "Body"
      [] Fold(k) = "type" -> "Type"
      [] Fold(k) = "timestamp" -> "Timestamp"
      [] Fold(k) = "from" -> "From"
      [] Fold(k) = "from_name" -> "FromName"
      [] Fold(k) = "to" -> "To"
      [] Fold(k) = "isForwarded" -> "IsForwarded"
      [] OTHER -> ""

\* The field of MessageResponse.Result a JSON key is stored in ("": none).
ResultField(k) ==
    CASE Fold(k) = "_id" -> "Id"
      [] Fold(k) = "id" -> "Id1"
      [] Fold(k) = "ack" -> "Ack"
      [] Fold(k) = "hasMedia" -> "HasMedia"
      [] Fold(k) = "mediaKey" -> "MediaKey"
      [] Fold(k) = "body" -> "Body"
      [] Fold(k) = "type" -> "Type"
      [] Fold(k) = "timestamp" -> "Timestamp"
      [] Fold(k) = "from" -> "From"
      [] Fold(k) = "from_name" -> "FromName"
      [] Fold(k) = "to" -> "To"
      [] Fold(k) = "isForwarded" -> "IsForwarded"
      [] OTHER -> ""

\* The JSON kind a Go field accepts.
ResultFieldKind(f) ==
    IF f \in {"Ack", "Timestamp"} THEN "num"
    ELSE IF f \in {"HasMedia", "IsForwarded"} THEN "bool"
    ELSE "str"

\* The tag of Data misspelt, so that no member is stored in it.
CheckFieldTypo(k) ==
    CASE Fold(k) = "result" -> "Result"
      [] Fold(k) = "date" -> "Data"
      [] OTHER -> ""

CheckField(k) ==
    CASE Fold(k) = "result" -> "Result"
      [] Fold(k) = "data" -> "Data"
      [] OTHER -> ""

CheckFieldKind(f) == IF f = "Data" THEN "bool" ELSE "str"

\* The Go value of a JSON scalar.
GoValue(v) ==
    CASE v.t = "str" -> DecodeString(v.s)
      [] v.t = "num" -> v.n
      [] v.t = "bool" -> v.b

\* Store one member into a struct: unknown keys are skipped, null leaves the
\* field alone, a value of the wrong kind is a type error (decoding goes on).
StoreMember(acc, f, kind, v) ==
    IF f = "" \/ v.t = "null" THEN acc
    ELSE IF v.t = kind THEN [acc EXCEPT !.v[f] = GoValue(v)]
    ELSE [acc EXCEPT !.err = TRUE]

RECURSIVE DecodeResult(_, _, _)
DecodeResult(m, i, acc) ==
    IF i > Len(m) THEN acc
    ELSE DecodeResult(m, i + 1,
            StoreMember(acc, ResultField(m[i].k),
                        ResultFieldKind(ResultField(m[i].k)), m[i].v))

RECURSIVE DecodeMessageResponse(_, _, _)
DecodeMessageResponse(m, i, acc) ==
    IF i > Len(m) THEN acc
    ELSE IF Fold(m[i].k) # "result" \/ m[i].v.t = "null"
        THEN DecodeMessageResponse(m, i + 1, acc)
    ELSE IF m[i].v.t = "obj"
        THEN LET r == DecodeResult(m[i].v.m, 1,
                                   [v |-> acc.v.Result, err |-> acc.err])
             IN  DecodeMessageResponse(m, i + 1,
                    [v |-> [Result |-> r.v], err |-> r.err])
    ELSE DecodeMessageResponse(m, i + 1, [acc EXCEPT !.err = TRUE])

RECURSIVE DecodeCheckResponse(_, _, _)
DecodeCheckResponse(m, i, acc) ==
    IF i > Len(m) THEN acc
    ELSE DecodeCheckResponse(m, i + 1,
            StoreMember(acc, CheckField(m[i].k),
                        CheckFieldKind(CheckField(m[i].k)), m[i].v))

\* Decoding one JSON value into a struct.
DecodeValueMessage(val) ==
    IF val.t = "null" THEN [v |-> ZeroMessageResponse, err |-> FALSE]
    ELSE IF val.t = "obj"
        THEN DecodeMessageResponse(val.m, 1,
                [v |-> ZeroMessageResponse, err |-> FALSE])
    ELSE [v |-> ZeroMessageResponse, err |-> TRUE]

DecodeValueCheck(val) ==
    IF val.t = "null" THEN [v |-> ZeroCheckResponse, err |-> FALSE]
    ELSE IF val.t = "obj"
        THEN DecodeCheckResponse(val.m, 1,
                [v |-> ZeroCheckResponse, err |-> FALSE])
    ELSE [v |-> ZeroCheckResponse, err |-> TRUE]

\* The error of json.Unmarshal dropped.
UnmarshalMessageLenient(text) ==
    IF text.val.t = "malformed" \/ text.trailing
    THEN [v |-> ZeroMessageResponse, err |-> FALSE]
    ELSE [v |-> DecodeValueMessage(text.val).v, err |-> FALSE]

\* json.Unmarshal(respBody, &message): the whole text must be one value.
UnmarshalMessage(text) ==
    IF text.val.t = "malformed" \/ text.trailing
    THEN [v |-> ZeroMessageResponse, err |-> TRUE]
    ELSE DecodeValueMessage(text.val)

\* json.NewDecoder(req.Body).Decode(&response): reads the stream up to the
\* end of its first value.  An object or array ends at its bracket; another
\* value ends at the next byte or at io.EOF, so a stream that breaks right
\* after it is an error.
DecodeCheck(body) ==
    IF body.val.t = "malformed"
        \/ (body.readFail /\ ~body.trailing /\ body.val.t \notin {"obj", "arr"})
    THEN [v |-> ZeroCheckResponse, err |-> TRUE]
    ELSE DecodeValueCheck(body.val)

\* io.ReadAll(req.Body): the text, and whether the stream broke.
ReadBody(body) ==
    [text |-> [val |-> body.val, trailing |-> body.trailing],
     err |-> body.readFail]

----------------------------------------------------------------------------
(* net/http: headers, requests, responses *)

\* textproto.CanonicalMIMEHeaderKey, on the names the client uses.
CanonicalKey(k) ==
    CASE k = "Content-type" -> "Content-Type"
      [] k = "content-type" -> "Content-Type"
      [] k = "x-api-key" -> "X-Api-Key"
      [] OTHER -> k

HeaderNames == {"X-Api-Key", "Content-Type"}

EmptyHeader == [h \in HeaderNames |-> <<>>]

\* Header.Add appends; Header.Get is the first value, or "".
HeaderAdd(h, k, v) == [h EXCEPT ![CanonicalKey(k)] = Append(@, v)]

HeaderGet(h, k) ==
    IF Len(h[CanonicalKey(k)]) = 0 THEN "" ELSE h[CanonicalKey(k)][1]

\* http.NewRequest followed by r.Close = true.
NewRequest(method, url, body) ==
    [Method |-> method, URL |-> url, Header |-> EmptyHeader,
     Body |-> body, Close |-> TRUE]

NoReq ==
    [Method |-> "", URL |-> "", Header |-> EmptyHeader,
     Body |-> JNull, Close |-> FALSE]

NoResp ==
    [StatusCode |-> 0,
     Body |-> [val |-> JNull, trailing |-> FALSE, readFail |-> FALSE],
     closed |-> FALSE]

NoCall ==
    [op |-> "", phone |-> <<>>, text |-> <<>>, filename |-> <<>>,
     pdf |-> NoReader]

\* What a call hands back: the MessageResponse, Check's boolean, the error
\* ("nil", or the step that failed; "none" while the call has not returned).
Ret(msg, ok, err) == [msg |-> msg, ok |-> ok, err |-> err]

NoRet == Ret(ZeroMessageResponse, FALSE, "none")

----------------------------------------------------------------------------
(* The client *)

NewClient(apiKey, whatsappID) ==
    [httpClient |-> [Transport |-> [xApiKey |-> apiKey]],
     url |-> BaseURL, WhatsappID |-> whatsappID]

\* The two values added under each other's name.
RoundTripHeaderBug(h, xApiKey) ==
    HeaderAdd(HeaderAdd(h, "X-Api-Key", "application/json"),
              "Content-type", xApiKey)

\* transport.RoundTrip's two header additions.
RoundTripHeader(h, xApiKey) ==
    HeaderAdd(HeaderAdd(h, "X-Api-Key", xApiKey),
              "Content-type", "application/json")

\* Any status below 400 taken for success.
StatusFailedBug(status) == status >= 400

SendMessageStatusFailed(status) == status # StatusOK

SendPDFStatusFailed(status) == status # StatusOK

CheckStatusFailed(status) == status # StatusOK

----------------------------------------------------------------------------
(* Operations.  Each call slot p runs one call at a time.                  *)

Idle(p) == pc[p] = "idle"

\* SendMessage up to the call of httpClient.Do: marshal (which cannot fail
\* on strings and a bool), build the request (the URL is fixed and valid).
SendMessageCall(p, phone, text) ==
    /\ Idle(p)
    /\ call' = [call EXCEPT ![p] =
                    [NoCall EXCEPT !.op = "SendMessage", !.phone = phone,
                                   !.text = text]]
    /\ req' = [req EXCEPT ![p] =
                    NewRequest("POST", client.url \o "/send",
                        MarshalMessageRequest(client.WhatsappID, phone, text))]
    /\ pc' = [pc EXCEPT ![p] = "do"]
    /\ UNCHANGED <<client, ctor, nreq, resp, ret, earlier>>

\* SendPDF up to the call of httpClient.Do; a reader that fails ends the call.
SendPDFCall(p, phone, text, filename, pdf) ==
    /\ Idle(p)
    /\ call' = [call EXCEPT ![p] =
                    [op |-> "SendPDF", phone |-> phone, text |-> text,
                     filename |-> filename, pdf |-> pdf]]
    /\ LET rd == ReadAll(pdf) IN
        IF rd.err
        THEN /\ ret' = [ret EXCEPT ![p] = Ret(ZeroMessageResponse, FALSE, "read")]
             /\ pc' = [pc EXCEPT ![p] = "done"]
             /\ UNCHANGED req
        ELSE /\ req' = [req EXCEPT ![p] =
                    NewRequest("POST", client.url \o "/send",
                        MarshalMessagePDFRequest(client.WhatsappID, phone,
                                                 text, filename, rd.b))]
             /\ pc' = [pc EXCEPT ![p] = "do"]
             /\ UNCHANGED ret
    /\ UNCHANGED <<client, ctor, nreq, resp, earlier>>

\* Check keeping the number it was asked about in the client.
CheckCallStoring(p, phone) ==
    /\ Idle(p)
    /\ call' = [call EXCEPT ![p] = [NoCall EXCEPT !.op = "Check", !.phone = phone]]
    /\ client' = [client EXCEPT !.WhatsappID = phone]
    /\ req' = [req EXCEPT ![p] =
                    NewRequest("POST", client.url \o "/check",
                        MarshalCheckRequest(client.WhatsappID, phone))]
    /\ pc' = [pc EXCEPT ![p] = "do"]
    /\ UNCHANGED <<ctor, nreq, resp, ret, earlier>>

\* Check up to the call of httpClient.Do.
CheckCall(p, phone) ==
    /\ Idle(p)
    /\ call' = [call EXCEPT ![p] = [NoCall EXCEPT !.op = "Check", !.phone = phone]]
    /\ req' = [req EXCEPT ![p] =
                    NewRequest("POST", client.url \o "/check",
                        MarshalCheckRequest(client.WhatsappID, phone))]
    /\ pc' = [pc EXCEPT ![p] = "do"]
    /\ UNCHANGED <<client, ctor, nreq, resp, ret, earlier>>

\* httpClient.Do hands the request to the transport, which adds the two
\* headers and passes it on to the network.
RoundTrip(p) ==
    /\ pc[p] = "do"
    /\ req' = [req EXCEPT ![p].Header =
                    RoundTripHeader(@, client.httpClient.Transport.xApiKey)]
    /\ nreq' = [nreq EXCEPT ![p] = @ + 1]
    /\ pc' = [pc EXCEPT ![p] = "wire"]
    /\ UNCHANGED <<client, ctor, call, resp, ret, earlier>>

\* The exchange fails (connection, DNS, TLS): Do returns an error and the
\* operation returns it.
DoFails(p) ==
    /\ pc[p] = "wire"
    /\ ret' = [ret EXCEPT ![p] = Ret(ZeroMessageResponse, FALSE, "transport")]
    /\ pc' = [pc EXCEPT ![p] = "done"]
    /\ UNCHANGED <<client, ctor, call, req, nreq, resp, earlier>>

\* The gateway answers: Do returns the response, its body still unread.
GatewayResponds(p, status, body) ==
    /\ pc[p] = "wire"
    /\ resp' = [resp EXCEPT ![p] =
                    [StatusCode |-> status, Body |-> body, closed |-> FALSE]]
    /\ pc' = [pc EXCEPT ![p] = "received"]
    /\ UNCHANGED <<client, ctor, call, req, nreq, ret, earlier>>

\* The response kept where every call can see it: whichever arrived.
SharedResp(p) == resp[CHOOSE q \in Procs : resp[q].StatusCode # 0]

\* The response SendMessage works on.
SendMessageResp(p) == resp[p]

\* SendMessage after Do: the deferred Close is registered first, so the body
\* is closed on every return below.
SendMessageFinish(p) ==
    /\ pc[p] = "received"
    /\ call[p].op = "SendMessage"
    /\ LET r == SendMessageResp(p)
           rb == ReadBody(r.Body)
           m == UnmarshalMessage(rb.text)
       IN  ret' = [ret EXCEPT ![p] =
                IF rb.err THEN Ret(ZeroMessageResponse, FALSE, "read")
                ELSE IF SendMessageStatusFailed(r.StatusCode)
                    THEN Ret(ZeroMessageResponse, FALSE, "status")
                ELSE IF m.err THEN Ret(ZeroMessageResponse, FALSE, "parse")
                ELSE Ret(m.v, FALSE, "nil")]
    /\ resp' = [resp EXCEPT ![p].closed = TRUE]
    /\ pc' = [pc EXCEPT ![p] = "done"]
    /\ UNCHANGED <<client, ctor, call, req, nreq, earlier>>

\* SendPDF after Do.
SendPDFFinish(p) ==
    /\ pc[p] = "received"
    /\ call[p].op = "SendPDF"
    /\ LET rb == ReadBody(resp[p].Body)
           m == UnmarshalMessage(rb.text)
       IN  ret' = [ret EXCEPT ![p] =
                IF rb.err THEN Ret(ZeroMessageResponse, FALSE, "read")
                ELSE IF SendPDFStatusFailed(resp[p].StatusCode)
                    THEN Ret(ZeroMessageResponse, FALSE, "status")
                ELSE IF m.err THEN Ret(ZeroMessageResponse, FALSE, "parse")
                ELSE Ret(m.v, FALSE, "nil")]
    /\ resp' = [resp EXCEPT ![p].closed = TRUE]
    /\ pc' = [pc EXCEPT ![p] = "done"]
    /\ UNCHANGED <<client, ctor, call, req, nreq, earlier>>

\* Check after Do: the status is tested BEFORE the deferred Close is
\* registered, so the non-200 return leaves the body open.
CheckFinish(p) ==
    /\ pc[p] = "received"
    /\ call[p].op = "Check"
    /\ IF CheckStatusFailed(resp[p].StatusCode)
       THEN /\ ret' = [ret EXCEPT ![p] = Ret(ZeroMessageResponse, FALSE, "status")]
            /\ UNCHANGED resp
       ELSE /\ LET d == DecodeCheck(resp[p].Body)
               IN  ret' = [ret EXCEPT ![p] =
                        IF d.err THEN Ret(ZeroMessageResponse, FALSE, "parse")
                        ELSE Ret(ZeroMessageResponse, d.v.Data, "nil")]
            /\ resp' = [resp EXCEPT ![p].closed = TRUE]
    /\ pc' = [pc EXCEPT ![p] = "done"]
    /\ UNCHANGED <<client, ctor, call, req, nreq, earlier>>

\* The caller takes the result; the call's locals are gone.
Return(p) ==
    /\ pc[p] = "done"
    /\ pc' = [pc EXCEPT ![p] = "idle"]
    /\ call' = [call EXCEPT ![p] = NoCall]
    /\ req' = [req EXCEPT ![p] = NoReq]
    /\ nreq' = [nreq EXCEPT ![p] = 0]
    /\ resp' = [resp EXCEPT ![p] = NoResp]
    /\ ret' = [ret EXCEPT ![p] = NoRet]
    /\ earlier' = TRUE
    /\ UNCHANGED <<client, ctor>>

----------------------------------------------------------------------------
(* Inputs *)

Ctors ==
    { [apiKey |-> "k1", whatsappID |-> <<"w", "a", "1">>],
      [apiKey |-> "k2", whatsappID |-> <<"w", "<", "2">>] }

Phones == { <<"7", "9">>, <<"7", "0", "\"">> }

Texts == { <<>>, <<"h", "e", "l", "l", "o">>, <<"a", "\"", "<", "\\">>, <<"h", BadByte>> }

Filenames == { <<"a", ".", "p", "d", "f">>, <<"<", BadByte>> }

ByteVals == {0, 37, 255}

ByteSeqs(n) == UNION { [1..k -> ByteVals] : k \in 0..n }

\* Readers of the sequential specification: a few fixed documents.
Readers ==
    { [data |-> d, chunk |-> 2, fails |-> f] :
        d \in { <<>>, <<37, 80, 68>> }, f \in BOOLEAN }

\* Readers of the document specification: every short byte sequence,
\* delivered one or two bytes per Read, ending in io.EOF or in an error.
PdfReaders ==
    { [data |-> d, chunk |-> c, fails |-> f] :
        d \in ByteSeqs(MaxPdfLen), c \in 1..2, f \in BOOLEAN }

Statuses == {200, 201, 404, 500}

S(str) == [t |-> "str", s |-> str]

\* The values the gateway may send (string leaves in escaped form).
BodyExample ==
    JObj(<<Member("result",
            JObj(<<Member("_id", S(<<"a", "b", "c">>)), Member("ack", JNum(1))>>))>>)

BodyFull ==
    JObj(<<Member("result",
            JObj(<<Member("_id", S(<<"m", "1">>)),
                   Member("id", S(<<"m", "2">>)),
                   Member("ack", JNum(3)),
                   Member("hasMedia", JBool(TRUE)),
                   Member("mediaKey", S(<<"k">>)),
                   Member("body", S(<<"h", "\\\"", "\\u003c">>)),
                   Member("type", S(<<"c", "h", "a", "t">>)),
                   Member("timestamp", JNum(7)),
                   Member("from", S(<<"f">>)),
                   Member("from_name", S(<<"n">>)),
                   Member("to", S(<<"t">>)),
                   Member("isForwarded", JBool(TRUE)),
                   Member("extra", JNum(9))>>))>>)

BodyCheckTrue ==
    JObj(<<Member("result", S(<<"O", "K">>)), Member("data", JBool(TRUE))>>)

BodyCheckFalse ==
    JObj(<<Member("result", S(<<"O", "K">>)), Member("data", JBool(FALSE))>>)

BodyNoData == JObj(<<Member("result", S(<<"O", "K">>))>>)

BodyFolded ==
    JObj(<<Member("Result",
            JObj(<<Member("ACK", JNum(2)), Member("_id", S(<<"x">>)),
                   Member("_id", S(<<"y">>)), Member("to", JNull)>>)),
           Member("Data", JBool(TRUE))>>)

BodyWrongKind ==
    JObj(<<Member("result", JObj(<<Member("ack", S(<<"1">>))>>)),
           Member("data", S(<<"y", "e", "s">>))>>)

BodyFloat == JObj(<<Member("result", JObj(<<Member("ack", JFloat)>>))>>)

Values ==
    << BodyExample, BodyFull, BodyCheckTrue, BodyCheckFalse, BodyNoData,
       BodyFolded, BodyWrongKind, BodyFloat, JNull, JBool(TRUE), JMalformed >>

Body(val, trailing, readFail) ==
    [val |-> val, trailing |-> trailing, readFail |-> readFail]

----------------------------------------------------------------------------
(* Specifications *)

Init ==
    /\ ctor \in Ctors
    /\ client = NewClient(ctor.apiKey, ctor.whatsappID)
    /\ pc = [p \in Procs |-> "idle"]
    /\ call = [p \in Procs |-> NoCall]
    /\ req = [p \in Procs |-> NoReq]
    /\ nreq = [p \in Procs |-> 0]
    /\ resp = [p \in Procs |-> NoResp]
    /\ ret = [p \in Procs |-> NoRet]
    /\ earlier = FALSE

\* One caller, calls one after another, every response.
Next ==
    \/ /\ Idle(1)
       /\ \E phone \in Phones, text \in Texts : SendMessageCall(1, phone, text)
    \/ /\ Idle(1)
       /\ \E phone \in Phones, text \in {<<"h", "i">>}, filename \in Filenames,
             pdf \in Readers : SendPDFCall(1, phone, text, filename, pdf)
    \/ /\ Idle(1)
       /\ \E phone \in Phones : CheckCall(1, phone)
    \/ RoundTrip(1)
    \/ DoFails(1)
    \/ /\ pc[1] = "wire"
       /\ \E status \in Statuses, i \in 1..Len(Values), tr \in BOOLEAN,
             rf \in BOOLEAN : GatewayResponds(1, status, Body(Values[i], tr, rf))
    \/ SendMessageFinish(1)
    \/ SendPDFFinish(1)
    \/ CheckFinish(1)
    \/ Return(1)

Spec == Init /\ [][Next]_vars

\* One caller sending documents of every short content.
NextPdf ==
    \/ /\ Idle(1)
       /\ \E phone \in Phones, text \in Texts, filename \in Filenames,
             pdf \in PdfReaders : SendPDFCall(1, phone, text, filename, pdf)
    \/ RoundTrip(1)
    \/ DoFails(1)
    \/ \E status \in {200, 500} :
          GatewayResponds(1, status, Body(BodyExample, FALSE, FALSE))
    \/ SendPDFFinish(1)
    \/ Return(1)

SpecPdf == Init /\ [][NextPdf]_vars

\* Several callers at once on one client.
NextConc ==
    \E p \in Procs :
        \/ \E phone \in Phones : SendMessageCall(p, phone, <<"h", "i">>)
        \/ \E phone \in Phones :
              SendPDFCall(p, phone, <<>>, <<"a">>,
                          [data |-> <<37>>, chunk |-> 1, fails |-> FALSE])
        \/ \E phone \in Phones : CheckCall(p, phone)
        \/ RoundTrip(p)
        \/ DoFails(p)
        \/ \E status \in {200, 404}, i \in {1, 3} :
              GatewayResponds(p, status, Body(Values[i], FALSE, FALSE))
        \/ SendMessageFinish(p)
        \/ SendPDFFinish(p)
        \/ CheckFinish(p)

SpecConc == Init /\ [][NextConc]_vars

----------------------------------------------------------------------------
(* Reading what was sent and received, for the properties below *)

HasKey(o, k) == \E i \in 1..Len(o.m) : o.m[i].k = k

GetV(o, k) == o.m[CHOOSE i \in 1..Len(o.m) : o.m[i].k = k].v

GetString(o, k) == DecodeString(GetV(o, k).s)

ValidUTF8(s) == \A i \in 1..Len(s) : s[i] # BadByte

Sent(p) == pc[p] \in {"wire", "received", "done"} /\ nreq[p] > 0

Built(p) == req[p].Method # ""

Answered(p) == pc[p] = "done" /\ resp[p].StatusCode # 0

IsSend(p) == call[p].op \in {"SendMessage", "SendPDF"}

\* The struct tags of MessageResponse.Result and the kind of each field.
KeyOf ==
    [Id |-> "_id", Id1 |-> "id", Ack |-> "ack", HasMedia |-> "hasMedia",
     MediaKey |-> "mediaKey", Body |-> "body", Type |-> "type",
     Timestamp |-> "timestamp", From |-> "from", FromName |-> "from_name",
     To |-> "to", IsForwarded |-> "isForwarded"]

KindOf ==
    [Id |-> "str", Id1 |-> "str", Ack |-> "num", HasMedia |-> "bool",
     MediaKey |-> "str", Body |-> "str", Type |-> "str",
     Timestamp |-> "num", From |-> "str", FromName |-> "str",
     To |-> "str", IsForwarded |-> "bool"]

\* A well-formed MessageResponse text: one object with one `result` object
\* whose known members are named as tagged, once each, with the right kind.
WellFormedMessage(val) ==
    /\ val.t = "obj"
    /\ Cardinality({i \in 1..Len(val.m) : Fold(val.m[i].k) = "result"}) = 1
    /\ HasKey(val, "result")
    /\ GetV(val, "result").t = "obj"
    /\ LET r == GetV(val, "result") IN
        \A i \in 1..Len(r.m) :
            /\ \A j \in 1..Len(r.m) : j # i => Fold(r.m[j].k) # Fold(r.m[i].k)
            /\ \A f \in DOMAIN KeyOf :
                  Fold(r.m[i].k) = KeyOf[f] =>
                      r.m[i].k = KeyOf[f] /\ r.m[i].v.t = KindOf[f]

\* The value the text gives field f, or the zero value when it has none.
FieldInText(val, f) ==
    LET r == GetV(val, "result") IN
    IF ~HasKey(r, KeyOf[f]) THEN ZeroResult[f]
    ELSE IF KindOf[f] = "str" THEN DecodeString(GetV(r, KeyOf[f]).s)
    ELSE IF KindOf[f] = "num" THEN GetV(r, KeyOf[f]).n
    ELSE GetV(r, KeyOf[f]).b

\* The boolean the text gives `data` as encoding/json binds it (the name
\* matched without regard to case, the last one counting), FALSE without.
DataInText(val) ==
    /\ val.t = "obj"
    /\ \E i \in 1..Len(val.m) :
          /\ Fold(val.m[i].k) = "data"
          /\ val.m[i].v.t = "bool"
          /\ val.m[i].v.b
          /\ \A j \in (i + 1)..Len(val.m) :
                Fold(val.m[j].k) = "data" => val.m[j].v.t = "null"

\* base64.StdEncoding decoding, four characters at a time.
Idx(c) == CHOOSE i \in 0..63 : B64[i + 1] = c

RECURSIVE StdDecode(_)
StdDecode(s) ==
    IF Len(s) < 4 THEN <<>>
    ELSE LET b1 == Idx(s[1]) * 4 + (Idx(s[2]) \div 16)
             rest == StdDecode(SubSeq(s, 5, Len(s)))
         IN  IF s[3] = "=" THEN <<b1>>
             ELSE LET b2 == (Idx(s[2]) % 16) * 16 + (Idx(s[3]) \div 4) IN
                  IF s[4] = "=" THEN <<b1, b2>>
                  ELSE <<b1, b2, (Idx(s[3]) % 4) * 64 + Idx(s[4])>> \o rest

----------------------------------------------------------------------------
(* Properties *)

\* C1: SendMessage and SendPDF answered with any status other than 200 return
\* an error and the zero MessageResponse, whatever the body holds.
C1_NonOKIsError ==
    \A p \in Procs :
        (Answered(p) /\ IsSend(p) /\ resp[p].StatusCode # 200) =>
            ret[p].err # "nil" /\ ret[p].msg = ZeroMessageResponse

\* A non-200 answer whose body is a readable, well-formed MessageResponse.
C1_Witness ==
    \E p \in Procs :
        /\ Answered(p) /\ call[p].op = "SendMessage"
        /\ resp[p].StatusCode = 201
        /\ resp[p].Body = Body(BodyExample, FALSE, FALSE)
        /\ ret[p].err = "status"

\* C2: Check returns nil error only for a 200 answer, and then the boolean
\* is the `data` member of the body; every other status is an error.
C2_CheckReturnsData ==
    \A p \in Procs :
        (pc[p] = "done" /\ call[p].op = "Check") =>
            /\ ret[p].err = "nil" =>
                  /\ resp[p].StatusCode = 200
                  /\ ret[p].ok = DataInText(resp[p].Body.val)
            /\ (Answered(p) /\ resp[p].StatusCode # 200) => ret[p].err # "nil"

\* Check answered 200 with data true, returning true.
C2_Witness ==
    \E p \in Procs :
        /\ Answered(p) /\ call[p].op = "Check"
        /\ resp[p].StatusCode = 200
        /\ resp[p].Body.val = BodyCheckTrue
        /\ ret[p].err = "nil" /\ ret[p].ok

\* C3: every request that went out carries X-Api-Key with the constructor's
\* key and Content-type application/json.
C3_HeadersOnEveryRequest ==
    \A p \in Procs :
        Sent(p) =>
            /\ HeaderGet(req[p].Header, "X-Api-Key") = ctor.apiKey
            /\ HeaderGet(req[p].Header, "Content-type") = "application/json"

\* A Check request on the wire after earlier calls on the same client.
C3_Witness ==
    \E p \in Procs :
        earlier /\ pc[p] = "wire" /\ call[p].op = "Check" /\ ctor.apiKey = "k2"

\* C4: a SendMessage call makes exactly one request, a POST to /send whose
\* body names the kind text, the text, the recipient, async false and the
\* client's sender ID (texts being valid UTF-8).
C4_SendMessageOnePost ==
    \A p \in Procs :
        call[p].op = "SendMessage" =>
            /\ nreq[p] <= 1
            /\ pc[p] \in {"wire", "received", "done"} =>
                  /\ nreq[p] = 1
                  /\ req[p].Method = "POST"
                  /\ req[p].URL = "https://whatsgate.ru/api/v1/send"
                  /\ GetString(GetV(req[p].Body, "message"), "type") = <<"t", "e", "x", "t">>
                  /\ ValidUTF8(call[p].text) =>
                        GetString(GetV(req[p].Body, "message"), "body") = call[p].text
                  /\ GetString(GetV(req[p].Body, "recipient"), "number") = call[p].phone
                  /\ GetV(req[p].Body, "async") = [t |-> "bool", b |-> FALSE]
                  /\ GetString(req[p].Body, "WhatsappID") = ctor.whatsappID

\* A finished SendMessage of a text with characters that need escaping.
C4_Witness ==
    \E p \in Procs :
        /\ pc[p] = "done" /\ call[p].op = "SendMessage"
        /\ call[p].text = <<"a", "\"", "<", "\\">>
        /\ nreq[p] = 1

\* C5: SendMessage and SendPDF answered 200 with a well-formed body return no
\* error and a MessageResponse whose every field is the one of the body.
C5_FieldsCopied ==
    \A p \in Procs :
        (/\ Answered(p) /\ IsSend(p)
         /\ resp[p].StatusCode = 200
         /\ ~resp[p].Body.readFail /\ ~resp[p].Body.trailing
         /\ WellFormedMessage(resp[p].Body.val)) =>
            /\ ret[p].err = "nil"
            /\ \A f \in DOMAIN KeyOf :
                  ret[p].msg.Result[f] = FieldInText(resp[p].Body.val, f)
            /\ resp[p].Body.val = BodyExample =>
                  /\ ret[p].msg.Result.Id = <<"a", "b", "c">>
                  /\ ret[p].msg.Result.Ack = 1
            /\ resp[p].Body.val = BodyFull =>
                  /\ ret[p].msg.Result.Id = <<"m", "1">>
                  /\ ret[p].msg.Result.Id1 = <<"m", "2">>
                  /\ ret[p].msg.Result.Body = <<"h", "\"", "<">>
                  /\ ret[p].msg.Result.IsForwarded

\* SendPDF answered 200 with the body that sets every field.
C5_Witness ==
    \E p \in Procs :
        /\ Answered(p) /\ call[p].op = "SendPDF"
        /\ resp[p].StatusCode = 200
        /\ resp[p].Body = Body(BodyFull, FALSE, FALSE)
        /\ ret[p].err = "nil"
        /\ ret[p].msg.Result.Timestamp = 7

\* C6: SendPDF reads its reader to the end and posts to /send a body of kind
\* doc whose media.data is the base64 of exactly those bytes, with mimetype
\* application/pdf and the given filename (a valid UTF-8 one).
C6_DocumentEncoded ==
    \A p \in Procs :
        (call[p].op = "SendPDF" /\ Built(p)) =>
            LET msg == GetV(req[p].Body, "message")
                media == GetV(msg, "media")
            IN  /\ req[p].Method = "POST"
                /\ req[p].URL = "https://whatsgate.ru/api/v1/send"
                /\ GetString(msg, "type") = <<"d", "o", "c">>
                /\ StdDecode(GetString(media, "data")) = call[p].pdf.data
                /\ Len(GetString(media, "data")) = 4 * ((Len(call[p].pdf.data) + 2) \div 3)
                /\ GetString(media, "mimetype") = MimePDF
                /\ ValidUTF8(call[p].filename) =>
                      GetString(media, "filename") = call[p].filename

\* A document longer than one Read and not a multiple of three bytes, sent.
C6_Witness ==
    \E p \in Procs :
        /\ call[p].op = "SendPDF" /\ Sent(p)
        /\ call[p].pdf.data = <<37, 255>>
        /\ call[p].pdf.chunk = 1

\* C7: every failure (reading the document, the exchange, a non-200 status,
\* reading or decoding the answer) comes back as an error with the zero
\* result, and the call makes no request after it.
C7_FailuresSurface ==
    \A p \in Procs :
        /\ nreq[p] <= 1
        /\ pc[p] = "done" =>
            /\ ret[p].err # "nil" =>
                  ret[p].msg = ZeroMessageResponse /\ ~ret[p].ok
            /\ (call[p].op = "SendPDF" /\ call[p].pdf.fails) =>
                  ret[p].err # "nil" /\ nreq[p] = 0
            /\ (nreq[p] = 1 /\ resp[p].StatusCode = 0) => ret[p].err # "nil"
            /\ (Answered(p) /\ resp[p].StatusCode # 200) => ret[p].err # "nil"
            /\ (/\ Answered(p) /\ IsSend(p)
                /\ \/ resp[p].Body.readFail
                   \/ resp[p].Body.trailing
                   \/ resp[p].Body.val.t \notin {"obj", "null"}
                   \/ resp[p].Body.val \in {BodyWrongKind, BodyFloat, BodyCheckTrue})
                  => ret[p].err # "nil"
            /\ (/\ Answered(p) /\ call[p].op = "Check"
                /\ \/ resp[p].Body.val.t \notin {"obj", "null"}
                   \/ resp[p].Body.val \in
                        {BodyWrongKind, BodyExample, BodyFull, BodyFloat, BodyFolded})
                  => ret[p].err # "nil"

\* SendMessage answered 200 with a body that is not JSON.
C7_Witness ==
    \E p \in Procs :
        /\ Answered(p) /\ call[p].op = "SendMessage"
        /\ resp[p].StatusCode = 200
        /\ resp[p].Body = Body(JMalformed, FALSE, FALSE)
        /\ ret[p].err = "parse"

\* C8: no operation changes the client: its base URL, sender ID and key stay
\* the constructor's, and each request is built from them and the call's own
\* arguments, and each result from the call's own answer, also after
\* earlier calls.
C8_ClientUnchanged ==
    /\ client.url = "https://whatsgate.ru/api/v1"
    /\ client.WhatsappID = ctor.whatsappID
    /\ client.httpClient.Transport.xApiKey = ctor.apiKey
    /\ \A p \in Procs :
          Built(p) =>
              /\ GetString(req[p].Body, "WhatsappID") = ctor.whatsappID
              /\ req[p].URL = "https://whatsgate.ru/api/v1"
                                \o (IF call[p].op = "Check" THEN "/check" ELSE "/send")
              /\ IF call[p].op = "Check"
                 THEN GetString(req[p].Body, "number") = call[p].phone
                 ELSE GetString(GetV(req[p].Body, "recipient"), "number") = call[p].phone
    /\ \A p \in Procs :
          (Answered(p) /\ resp[p].StatusCode = 200) =>
              /\ (IsSend(p) /\ resp[p].Body = Body(BodyExample, FALSE, FALSE)) =>
                    ret[p] = Ret([Result |-> [ZeroResult EXCEPT
                                                !.Id = <<"a", "b", "c">>, !.Ack = 1]],
                                 FALSE, "nil")
              /\ (call[p].op = "Check" /\ resp[p].Body.val = BodyCheckFalse) =>
                    ret[p] = Ret(ZeroMessageResponse, FALSE, "nil")

\* A call that succeeded after an earlier call on the same client.
C8_Witness ==
    \E p \in Procs :
        earlier /\ pc[p] = "done" /\ ret[p].err = "nil" /\ call[p].op = "SendMessage"

\* C9: with calls running at once, each request carries its own call's
\* payload and the constructor's key, and each call returns what the answer
\* to its own request gives.
C9_CallsIsolated ==
    \A p \in Procs :
        /\ Built(p) =>
              /\ GetString(req[p].Body, "WhatsappID") = ctor.whatsappID
              /\ IF call[p].op = "Check"
                 THEN GetString(req[p].Body, "number") = call[p].phone
                 ELSE GetString(GetV(req[p].Body, "recipient"), "number") = call[p].phone
        /\ Sent(p) => req[p].Header["X-Api-Key"] = <<ctor.apiKey>>
        /\ Answered(p) =>
              /\ resp[p].StatusCode # 200 => ret[p].err = "status"
              /\ (resp[p].StatusCode = 200 /\ IsSend(p)) =>
                    IF resp[p].Body.val = BodyExample
                    THEN ret[p].err = "nil" /\ ret[p].msg.Result.Id = <<"a", "b", "c">>
                    ELSE ret[p].err = "parse"
              /\ (resp[p].StatusCode = 200 /\ call[p].op = "Check") =>
                    IF resp[p].Body.val = BodyCheckTrue
                    THEN ret[p].err = "nil" /\ ret[p].ok
                    ELSE ret[p].err = "parse"

\* Two calls finished, sent to different recipients and answered differently.
C9_Witness ==
    /\ pc[1] = "done" /\ pc[2] = "done"
    /\ call[1].op = "SendMessage" /\ call[2].op = "SendMessage"
    /\ call[1].phone # call[2].phone
    /\ resp[1].StatusCode = 404 /\ resp[2].StatusCode = 200
    /\ resp[2].Body.val = BodyExample
    /\ ret[2].err = "nil"

\* C10: whenever Do returned a response, its body is closed by the time the
\* operation returns.
C10_BodyClosed ==
    \A p \in Procs : Answered(p) => resp[p].closed

============================================================================
